---- MODULE Spec2Model ----
(***************************************************************************)
(* A model of the Geetha Tex production dashboard: the application state   *)
(* container (AppProvider), the forms that call it, and the derivation of  *)
(* CalculatedBatch records (AppContent.calculatedBatches) with its         *)
(* per-machine aggregation (MachinesPage.batchesByMachine).                *)
(*                                                                         *)
(* Conventions for JavaScript values                                       *)
(*   null / undefined      the empty sequence <<>>  (Null)                 *)
(*   a nullable value v    the one-element sequence <<v>>                  *)
(*   fractional numbers    fixed point, in tenths: meterValue 1250.5 is    *)
(*                         12505, numberOfMachines 2.5 is 25               *)
(*   average               fixed point, in hundredths (toFixed(2))         *)
(*   a date string         'YYYY-MM-DD' is <<Y, M, D>>, '' is <<>>         *)
(*   an id                 the integer whose decimal digits the string     *)
(*                         holds ('1' is 1, Date.now().toString() is the   *)
(*                         clock value)                                    *)
(*   text typed in an <input type="number">                                *)
(*                         <<>> for the empty text, <<n>> for the text of  *)
(*                         the number n (in tenths)                        *)
(*   a notification        the sequence of the parts of its text           *)
(***************************************************************************)
EXTENDS Integers, Sequences, FiniteSets, TLC

(***************************************************************************)
(* Bounds of the model.                                                    *)
(***************************************************************************)
\* Date.now() when the session starts (any value above the mock ids).
ClockStart == 1000
\* How many milliseconds the clock advances in the millisecond-grained runs.
MaxTicks == 1
\* How many batches the user adds through the add-batch form.
MaxAdds == 2
\* How many batches the user updates through the edit form.
MaxEdits == 1
\* How many batch types the batch-type list grows beyond the mock types.
MaxTypeAdds == 1
\* How many months the calendar moves away from the current month.
MaxMonths == 2
\* The longest display the digit keys extend, and the largest magnitude of a
\* result of the calculator.
MaxDigits == 2
MaxResult == 40
\* Largest meter value (whole) typed into the add form in the derivation runs.
MaxMeter == 200
\* The step of the clock, and how far it runs, in the second-grained runs.
StepMs == 1000
HorizonMs == 7000

(***************************************************************************)
(* Program constants.                                                      *)
(***************************************************************************)
\* setTimeout(() => setNotification(null), 3000)
NotificationTimeoutMs == 3000

Null == <<>>

Some(v) == <<v>>

StatusInProgress == "In Progress"

\* The text of the date input left empty.
EmptyDate == <<>>

(***************************************************************************)
(* MOCK_BATCHES and MOCK_BATCH_TYPES.                                      *)
(***************************************************************************)
MOCK_BATCHES ==
  << [id |-> 1, name |-> "Autumn Collection Run 1", batchNumber |-> "ACR001",
      machineNumber |-> 1, startDate |-> <<2023, 10, 1>>, endDate |-> <<2023, 10, 5>>,
      meterValue |-> 12505, color |-> "#16a34a"],
     [id |-> 2, name |-> "Winter Fabric Prep", batchNumber |-> "WFP001",
      machineNumber |-> 2, startDate |-> <<2023, 10, 3>>, endDate |-> <<2023, 10, 8>>,
      meterValue |-> 21002, color |-> "#16a34a"],
     [id |-> 3, name |-> "Spring Pattern Test", batchNumber |-> "SPT001",
      machineNumber |-> 1, startDate |-> <<2023, 10, 10>>, endDate |-> <<2023, 10, 15>>,
      meterValue |-> 9500, color |-> "#f59e0b"],
     [id |-> 4, name |-> "Holiday Special Edition", batchNumber |-> "HSE001",
      machineNumber |-> 3, startDate |-> <<2023, 10, 12>>, endDate |-> <<2023, 10, 20>>,
      meterValue |-> 35008, color |-> "#f59e0b"],
     [id |-> 5, name |-> "Denim Wash Experiment", batchNumber |-> "DWE001",
      machineNumber |-> 2, startDate |-> <<2023, 10, 18>>, endDate |-> <<2023, 10, 25>>,
      meterValue |-> 22007, color |-> "#dc2626"] >>

MOCK_BATCH_TYPES ==
  << [id |-> 1, batchNumber |-> "ACR001", color |-> "#16a34a"],
     [id |-> 2, batchNumber |-> "WFP001", color |-> "#06b6d4"],
     [id |-> 3, batchNumber |-> "SPT001", color |-> "#f59e0b"],
     [id |-> 4, batchNumber |-> "HSE001", color |-> "#ef4444"],
     [id |-> 5, batchNumber |-> "DWE001", color |-> "#3b82f6"],
     [id |-> 6, batchNumber |-> "SUMMER-LITE", color |-> "#eab308"] >>

\* MOCK_BATCHES.map(b => ({...b, status: 'In Progress'}))
WithStatus(b) ==
  [id |-> b.id, name |-> b.name, batchNumber |-> b.batchNumber,
   machineNumber |-> b.machineNumber, startDate |-> b.startDate,
   endDate |-> b.endDate, meterValue |-> b.meterValue, color |-> b.color,
   status |-> StatusInProgress]

SeedBatches == [i \in 1..Len(MOCK_BATCHES) |-> WithStatus(MOCK_BATCHES[i])]

(***************************************************************************)
(* Generic sequence helpers (Array.prototype.filter / map).                *)
(***************************************************************************)
RECURSIVE SelectSeqIdx(_, _, _)
\* The subsequence of s at the indices i >= from with keep[i].
SelectSeqIdx(s, keep, from) ==
  IF from > Len(s) THEN <<>>
  ELSE (IF keep[from] THEN <<s[from]>> ELSE <<>>) \o SelectSeqIdx(s, keep, from + 1)

Reverse(s) == [i \in 1..Len(s) |-> s[Len(s) + 1 - i]]

(***************************************************************************)
(* Dates: new Date('YYYY-MM-DD').getTime().  A date-only ISO string is     *)
(* UTC midnight of that civil day; the model counts the time in days since *)
(* 1970-01-01 (the millisecond value divided by 86400000), which keeps the *)
(* sign of every difference.  new Date('') is an Invalid Date whose        *)
(* getTime() is NaN: NaN is modelled as Null.                              *)
(***************************************************************************)
DaysFromCivil(y, m, d) ==
  LET yy  == IF m <= 2 THEN y - 1 ELSE y
      era == yy \div 400
      yoe == yy - era * 400
      mp  == IF m > 2 THEN m - 3 ELSE m + 9
      doy == (153 * mp + 2) \div 5 + d - 1
      doe == yoe * 365 + yoe \div 4 - yoe \div 100 + doy
  IN  era * 146097 + doe - 719468

GetTime(dateString) ==
  IF dateString = EmptyDate THEN Null
  ELSE Some(DaysFromCivil(dateString[1], dateString[2], dateString[3]))

\* getTodayDateString() on the day of the session.
Today == <<2023, 11, 1>>

IsLeapYear(y) == (y % 4 = 0 /\ y % 100 # 0) \/ y % 400 = 0

DaysInMonth(y, m) ==
  IF m = 2 THEN (IF IsLeapYear(y) THEN 29 ELSE 28)
  ELSE IF m \in {4, 6, 9, 11} THEN 30 ELSE 31

PreviousDay(date) ==
  IF date[3] > 1 THEN <<date[1], date[2], date[3] - 1>>
  ELSE IF date[2] > 1 THEN <<date[1], date[2] - 1, DaysInMonth(date[1], date[2] - 1)>>
  ELSE <<date[1] - 1, 12, 31>>

\* The zones the browser may run in, in minutes east of UTC (New York in
\* winter, India).
TimezoneOffsets == {-300, 330}

\* The local calendar day of new Date(dateString), the day getFullYear(),
\* getMonth() and getDate() read: the string is UTC midnight, which is still
\* the previous day in a zone west of UTC.  Null for an Invalid Date, whose
\* getters return NaN.
LocalDayOf(dateString, offset) ==
  IF dateString = EmptyDate THEN Null
  ELSE IF offset < 0 THEN Some(PreviousDay(dateString))
  ELSE Some(dateString)

\* Date.prototype.setMonth(month) with a zero-based month that may be -1 or
\* 12: the year takes the carry, and a day the month does not have runs
\* over into the following month.
SetMonth(date, month) ==
  LET y   == date[1] + (IF month < 0 THEN -1 ELSE IF month > 11 THEN 1 ELSE 0)
      m   == (month % 12) + 1
      dim == DaysInMonth(y, m)
  IN  IF date[3] <= dim THEN <<y, m, date[3]>>
      ELSE IF m = 12 THEN <<y + 1, 1, date[3] - dim>>
      ELSE <<y, m + 1, date[3] - dim>>

Sign(n) == IF n < 0 THEN -1 ELSE IF n > 0 THEN 1 ELSE 0

\* (a, b) => new Date(b.startDate).getTime() - new Date(a.startDate).getTime(),
\* as Array.prototype.sort reads it: a NaN result counts as +0.
SortCompare(a, b) ==
  LET ta == GetTime(a.startDate)
      tb == GetTime(b.startDate)
  IN  IF ta = Null \/ tb = Null THEN 0 ELSE Sign(tb[1] - ta[1])

(***************************************************************************)
(* Array.prototype.sort.  With a consistent comparator every conforming    *)
(* engine returns the one stable ordering.  A comparator that answers 0    *)
(* for NaN is not consistent, and the order is then left to the engine:    *)
(* the steps below are V8's for an array shorter than 64 elements (one     *)
(* run: CountAndMakeRun, then BinaryInsertionSort).                        *)
(***************************************************************************)
RECURSIVE RunLength(_, _, _)
\* The length of the run that starts at a[1]; idx is the next index to test.
RunLength(a, idx, isDescending) ==
  IF idx > Len(a) THEN Len(a)
  ELSE LET order == SortCompare(a[idx], a[idx - 1])
       IN  IF (isDescending /\ order >= 0) \/ (~isDescending /\ order < 0)
           THEN idx - 1
           ELSE RunLength(a, idx + 1, isDescending)

RECURSIVE BinarySearch(_, _, _, _)
\* The 0-based insertion point of pivot in a[left+1 .. right].
BinarySearch(a, pivot, left, right) ==
  IF left >= right THEN left
  ELSE LET mid == left + ((right - left) \div 2)
       IN  IF SortCompare(pivot, a[mid + 1]) < 0
           THEN BinarySearch(a, pivot, left, mid)
           ELSE BinarySearch(a, pivot, mid + 1, right)

RECURSIVE BinaryInsertionSort(_, _)
\* a[1 .. start-1] is sorted; insert a[start], a[start+1], ... in turn.
BinaryInsertionSort(a, start) ==
  IF start > Len(a) THEN a
  ELSE LET pivot == a[start]
           left  == BinarySearch(a, pivot, 0, start - 1)
           moved == SubSeq(a, 1, left) \o <<pivot>> \o SubSeq(a, left + 1, start - 1)
                      \o SubSeq(a, start + 1, Len(a))
       IN  BinaryInsertionSort(moved, start + 1)

ArraySort(a) ==
  IF Len(a) < 2 THEN a
  ELSE LET isDescending == SortCompare(a[2], a[1]) < 0
           runLength    == RunLength(a, 3, isDescending)
           run          == IF isDescending
                           THEN Reverse(SubSeq(a, 1, runLength))
                                  \o SubSeq(a, runLength + 1, Len(a))
                           ELSE a
       IN  BinaryInsertionSort(run, runLength + 1)

(***************************************************************************)
(* The derivation: AppContent.calculatedBatches.                           *)
(***************************************************************************)
\* Math.floor in place of Math.round (the mutant of C7 and C8).
FtotalOf_floor(meterValue) == meterValue \div 40

\* Math.round(meterValue / 4): the nearest integer, a tie towards +infinity.
\* Division by 4 is exact in binary floating point, so this is exact.
FtotalOf(meterValue) == (meterValue + 20) \div 40

\* parseFloat((meterValue / ftotal).toFixed(2)), in hundredths: the quotient
\* rounded to two decimals, a decimal tie to the upper neighbour.  toFixed
\* works on the IEEE-754 double of the quotient; for the meter values that
\* occur (the mock values and whole numbers up to 259) the double is never
\* below a decimal tie of the exact quotient, so the exact rule gives the
\* digits toFixed gives.
ToFixed2(meterValue, ftotal) == (20 * meterValue + ftotal) \div (2 * ftotal)

AverageOf(meterValue, ftotal) ==
  IF ftotal > 0 THEN ToFixed2(meterValue, ftotal) ELSE 0

\* { ...batch, ftotal, average }
Calculate(batch) ==
  [k \in DOMAIN batch \cup {"ftotal", "average"} |->
     IF k = "ftotal" THEN FtotalOf(batch.meterValue)
     ELSE IF k = "average" THEN AverageOf(batch.meterValue, FtotalOf(batch.meterValue))
     ELSE batch[k]]

\* batches.map(...).sort(...)
CalculatedBatchesOf(list) == ArraySort([i \in 1..Len(list) |-> Calculate(list[i])])

(***************************************************************************)
(* MachinesPage.batchesByMachine.                                          *)
(***************************************************************************)
\* The length Array.from({length: n}) gives: ToLength truncates and clamps.
ToLength(n) == IF n <= 0 THEN 0 ELSE n \div 10

FilterByMachine(calculated, machineNumber) ==
  SelectSeqIdx(calculated,
               [i \in 1..Len(calculated) |-> calculated[i].machineNumber = machineNumber],
               1)

\* A variant that leaves out the machines without batches (C10's mutant).
BatchesByMachineOf_skipEmpty(calculated, numberOfMachines) ==
  SelectSeqIdx([i \in 1..ToLength(numberOfMachines) |->
                  [machineNumber |-> i, batches |-> FilterByMachine(calculated, i)]],
               [i \in 1..ToLength(numberOfMachines) |->
                  FilterByMachine(calculated, i) # <<>>],
               1)

BatchesByMachineOf(calculated, numberOfMachines) ==
  [i \in 1..ToLength(numberOfMachines) |->
     [machineNumber |-> i, batches |-> FilterByMachine(calculated, i)]]

(***************************************************************************)
(* The state.                                                              *)
(*   settings, batches, batchTypes, theme   useLocalStorage values         *)
(*   notification                           useState<string | null>        *)
(*   timers        due times of the pending notification timeouts          *)
(*   notifiedAt    Date.now() of the latest setNotification(message) call  *)
(*   store         window.localStorage, by key                             *)
(*   storeFull     whether localStorage.setItem throws                     *)
(*   clock         Date.now()                                              *)
(*   adds, edits   how many batches the add form has added and the edit    *)
(*                 form has updated (bookkeeping for the bounds)           *)
(*   addErrors     AddBatchModal's errors.meterValue                       *)
(*   batchToEdit, isEditBatchModalOpen      AppContent's edit state        *)
(*   editFormData, editErrors               EditBatchModal's state         *)
(*   editObjIdx    the index in the memoised calculatedBatches array of    *)
(*                 the object batchToEdit holds, 0 when the array has been *)
(*                 rebuilt since (object identity)                         *)
(*   input, operator, previousValue         CalculatorModal's state: the   *)
(*                 display as a sequence of characters, the pending        *)
(*                 operator and the left operand (Null when none)          *)
(***************************************************************************)
VARIABLES settings, batches, batchTypes, theme, notification, timers, notifiedAt,
          store, storeFull, clock, adds, edits, addErrors, batchToEdit,
          isEditBatchModalOpen, editFormData, editErrors, editObjIdx,
          currentDate, calendarDate, aiSummary, isGenerating, aiError,
          timezoneOffset, input, operator, previousValue

editVars == <<batchToEdit, isEditBatchModalOpen, editFormData, editErrors>>

containerVars == <<settings, batches, batchTypes, store, notification, timers,
                   notifiedAt, editObjIdx>>

\* The state of ReportsPage and of the BatchCalendar it renders, the time zone
\* their dates are read in, and the state of CalculatorModal: what the pages
\* and the provider leave alone.
calculatorVars == <<input, operator, previousValue>>

reportVars == <<currentDate, calendarDate, aiSummary, isGenerating, aiError,
                timezoneOffset, calculatorVars>>

vars == <<settings, batches, batchTypes, theme, notification, timers, notifiedAt,
          store, storeFull, clock, adds, edits, addErrors, batchToEdit,
          isEditBatchModalOpen, editFormData, editErrors, editObjIdx,
          currentDate, calendarDate, aiSummary, isGenerating, aiError,
          timezoneOffset, input, operator, previousValue>>

SettingsKey == "geetha-tex-settings"

BatchesKey == "geetha-tex-batches"

BatchTypesKey == "geetha-tex-batch-types"

ThemeKey == "geetha-tex-theme"

StoreKeys == {SettingsKey, BatchesKey, BatchTypesKey, ThemeKey}

\* JSON.stringify, the text given by its parse tree.  The values written are
\* strings, finite numbers, null, arrays and plain objects without undefined
\* members, which JSON text holds without loss.
JsonStringify(value) == <<"json", value>>

\* A store whose writes never fail (the mutant of C19).
SetItem_ignoreQuota(st, key, value) == [st EXCEPT ![key] = JsonStringify(value)]

\* A setValue that writes every value under the theme key (the mutant of C20).
SetItem_underThemeKey(st, key, value) ==
  IF storeFull THEN st ELSE [st EXCEPT ![ThemeKey] = JsonStringify(value)]

\* window.localStorage.setItem(key, JSON.stringify(valueToStore)) inside
\* setValue's try block: a throw is caught and logged, the store keeps its
\* previous content.
SetItem(st, key, value) ==
  IF storeFull THEN st ELSE [st EXCEPT ![key] = JsonStringify(value)]

\* The state after the first render on the local day today, in a zone offset
\* minutes east of UTC: both new Date() of the reports page read that day.
InitOn(today, offset) ==
  /\ settings = Null
  /\ batches = <<>>
  /\ batchTypes = <<>>
  /\ theme = "light"
  /\ notification = Null
  /\ timers = {}
  /\ notifiedAt = Null
  /\ store = [k \in StoreKeys |-> Null]
  /\ storeFull = FALSE
  /\ clock = ClockStart
  /\ adds = 0
  /\ edits = 0
  /\ addErrors = ""
  /\ batchToEdit = Null
  /\ isEditBatchModalOpen = FALSE
  /\ editFormData = Null
  /\ editErrors = [batchNumber |-> "", meterValue |-> ""]
  /\ editObjIdx = 0
  /\ currentDate = today
  /\ calendarDate = today
  /\ aiSummary = ""
  /\ isGenerating = FALSE
  /\ aiError = Null
  /\ timezoneOffset = offset
  /\ input = <<"0">>
  /\ operator = Null
  /\ previousValue = Null

\* The session runs around midday UTC, when the local day is the UTC day.
InitIn(offset) == InitOn(Today, offset)

Init == InitIn(330)

(***************************************************************************)
(* Derived values of the current state.                                    *)
(***************************************************************************)
calculatedBatches == CalculatedBatchesOf(batches)

batchesByMachine == BatchesByMachineOf(calculatedBatches, settings[1].numberOfMachines)

\* The indices in calculatedBatches of the rows the machine cards show: a
\* batch has an edit and a delete button when its machine has a card.
DisplayedRows ==
  IF settings = Null THEN {}
  ELSE LET c == calculatedBatches
           cards == BatchesByMachineOf(c, settings[1].numberOfMachines)
           machines == {cards[k].machineNumber : k \in 1..Len(cards)}
       IN  {i \in 1..Len(c) : c[i].machineNumber \in machines}

(***************************************************************************)
(* The container's operations on the batch list (AppProvider).  A message  *)
(* is the sequence of the parts of its template literal.                   *)
(***************************************************************************)
\* { ...newBatch, id: Date.now().toString(), status: 'In Progress', name: '' }
BatchWithId(newBatch, now) ==
  [k \in DOMAIN newBatch \cup {"id", "status", "name"} |->
     IF k = "id" THEN now
     ELSE IF k = "status" THEN StatusInProgress
     ELSE IF k = "name" THEN ""
     ELSE newBatch[k]]

\* A variant of addBatch that appends, keeping the user's status (C4's mutant).
addBatch_appendKeepStatus(prev, newBatch, now) ==
  prev \o <<[BatchWithId(newBatch, now) EXCEPT
              !.status = IF "status" \in DOMAIN newBatch THEN newBatch.status ELSE "Delayed"]>>

\* setBatches(prev => [batchWithId, ...prev])
addBatch(prev, newBatch, now) == <<BatchWithId(newBatch, now)>> \o prev

AddedMessage == <<"New batch added successfully!">>

\* A variant of updateBatch that moves the updated batch to the front (C5's
\* mutant).
updateBatch_moveToFront(prev, updatedBatch) ==
  IF \E i \in 1..Len(prev) : prev[i].id = updatedBatch.id
  THEN <<updatedBatch>>
         \o SelectSeqIdx(prev, [i \in 1..Len(prev) |-> prev[i].id # updatedBatch.id], 1)
  ELSE prev

\* setBatches(prev => prev.map(b => b.id === updatedBatch.id ? updatedBatch : b))
updateBatch(prev, updatedBatch) ==
  [i \in 1..Len(prev) |-> IF prev[i].id = updatedBatch.id THEN updatedBatch ELSE prev[i]]

\* `Batch ${updatedBatch.batchNumber} updated!`
UpdatedMessage(updatedBatch) == <<"Batch ", updatedBatch.batchNumber, " updated!">>

\* setBatches(prev => prev.filter(b => b.id !== batchId))
deleteBatch(prev, batchId) ==
  SelectSeqIdx(prev, [i \in 1..Len(prev) |-> prev[i].id # batchId], 1)

DeletedMessage == <<"Batch deleted successfully!">>

SettingsMessage == <<"Company settings updated successfully!">>

\* { ...newBatchType, id: Date.now().toString() }; setBatchTypes(prev => [...prev, typeWithId])
addBatchType(prev, newBatchType, now) ==
  Append(prev, [id |-> now, batchNumber |-> newBatchType.batchNumber,
                color |-> newBatchType.color])

TypeAddedMessage == <<"Batch type added successfully!">>

\* setBatchTypes(prev => prev.map(bt => bt.id === updatedBatchType.id ? updatedBatchType : bt))
updateBatchType(prev, updatedBatchType) ==
  [i \in 1..Len(prev) |->
     IF prev[i].id = updatedBatchType.id THEN updatedBatchType ELSE prev[i]]

\* setBatchTypes(prev => prev.filter(bt => bt.id !== batchTypeId))
deleteBatchType(prev, batchTypeId) ==
  SelectSeqIdx(prev, [i \in 1..Len(prev) |-> prev[i].id # batchTypeId], 1)

TypeDeletedMessage == <<"Batch type deleted successfully!">>

(***************************************************************************)
(* What follows every handler: React commits the new state and runs the    *)
(* effects.                                                                *)
(*   - the seeding effect: with settings present and no batch it stores    *)
(*     the mock batches and batch types;                                   *)
(*   - the notification effect (deps: notification): when the value        *)
(*     changed, the previous timeout is cleared and, for a message, a new  *)
(*     one is set; setting the value it already has changes nothing.       *)
(* message is Null when the handler does not call setNotification.         *)
(* batchesSet tells whether the handler called setBatches, which makes     *)
(* useMemo build new CalculatedBatch objects.                              *)
(***************************************************************************)
SeedingRuns(newSettings, newBatches) == newSettings # Null /\ Len(newBatches) = 0

NotificationTimers(newNotification) ==
  IF newNotification = notification THEN timers
  ELSE IF newNotification = Null THEN {}
  ELSE {clock + NotificationTimeoutMs}

\* A commit that cascades: the batches numbered like no remaining batch type
\* are dropped (the mutant of C23).
Commit_cascade(newSettings, newBatches, newTypes, newStore, message, batchesSet) ==
  LET seed == SeedingRuns(newSettings, newBatches)
      newNotification == IF message = Null THEN notification ELSE message
      kept == SelectSeqIdx(newBatches,
                           [i \in 1..Len(newBatches) |->
                              \E j \in 1..Len(newTypes) :
                                newTypes[j].batchNumber = newBatches[i].batchNumber],
                           1)
  IN  /\ settings' = newSettings
      /\ batches' = IF seed THEN SeedBatches ELSE kept
      /\ batchTypes' = IF seed THEN MOCK_BATCH_TYPES ELSE newTypes
      /\ store' = IF seed
                  THEN SetItem(SetItem(newStore, BatchesKey, SeedBatches),
                               BatchTypesKey, MOCK_BATCH_TYPES)
                  ELSE newStore
      /\ notification' = newNotification
      /\ timers' = NotificationTimers(newNotification)
      /\ notifiedAt' = IF message = Null THEN notifiedAt ELSE Some(clock)
      /\ editObjIdx' = IF batchesSet \/ seed THEN 0 ELSE editObjIdx

Commit(newSettings, newBatches, newTypes, newStore, message, batchesSet) ==
  LET seed == SeedingRuns(newSettings, newBatches)
      newNotification == IF message = Null THEN notification ELSE message
  IN  /\ settings' = newSettings
      /\ batches' = IF seed THEN SeedBatches ELSE newBatches
      /\ batchTypes' = IF seed THEN MOCK_BATCH_TYPES ELSE newTypes
      /\ store' = IF seed
                  THEN SetItem(SetItem(newStore, BatchesKey, SeedBatches),
                               BatchTypesKey, MOCK_BATCH_TYPES)
                  ELSE newStore
      /\ notification' = newNotification
      /\ timers' = NotificationTimers(newNotification)
      /\ notifiedAt' = IF message = Null THEN notifiedAt ELSE Some(clock)
      /\ editObjIdx' = IF batchesSet \/ seed THEN 0 ELSE editObjIdx

(***************************************************************************)
(* SetupWizard.handleComplete.  The wizard is what AppContent renders      *)
(* while settings is null; its button is no submit button, so the number   *)
(* input's constraints are not enforced.                                   *)
(***************************************************************************)
WizardForms == [companyName : {"", "Geetha Tex"}, numberOfMachines : {0, 10, 25, 30}]

SetupWizard_handleComplete(formData) ==
  /\ settings = Null
  /\ formData.companyName # "" /\ formData.numberOfMachines > 0
  /\ Commit(Some(formData), batches, batchTypes,
            SetItem(store, SettingsKey, Some(formData)), Null, FALSE)
  /\ UNCHANGED <<reportVars, theme, storeFull, clock, adds, edits, addErrors, editVars>>

(***************************************************************************)
(* SettingsPage.handleSettingsSubmit and handleReset.  The number input    *)
(* carries min="1" (and the default step 1): the browser does not submit   *)
(* the form while that constraint fails.  The edit modal is an overlay     *)
(* over the page: while it is open the page's controls are out of reach.   *)
(***************************************************************************)
SettingsForms == [companyName : {"Geetha Tex"}, numberOfMachines : {0, 10, 30}]

NumberInputValid(n) == n >= 10 /\ n % 10 = 0

SettingsPage_handleSettingsSubmit(formData) ==
  /\ settings # Null
  /\ ~isEditBatchModalOpen
  /\ NumberInputValid(formData.numberOfMachines)
  /\ Commit(Some(formData), batches, batchTypes,
            SetItem(store, SettingsKey, Some(formData)), Some(SettingsMessage), FALSE)
  /\ UNCHANGED <<reportVars, theme, storeFull, clock, adds, edits, addErrors, editVars>>

SettingsPage_handleReset(confirmed) ==
  /\ settings # Null
  /\ ~isEditBatchModalOpen
  /\ IF confirmed
     THEN Commit(Null, <<>>, batchTypes,
                 SetItem(SetItem(store, SettingsKey, Null), BatchesKey, <<>>),
                 Null, TRUE)
     ELSE UNCHANGED containerVars
  /\ UNCHANGED <<reportVars, theme, storeFull, clock, adds, edits, addErrors, editVars>>

(***************************************************************************)
(* AddBatchModal: validate and handleSubmit.  The batch number is one of   *)
(* the select's options (the batch types), the machine one of the machine  *)
(* select's options or the form's initial '1', the dates whatever the date *)
(* inputs hold (empty when cleared), the meter value a whole number (the   *)
(* number input is required and has the default step 1).  The forms        *)
(* enumerated select the first batch type and leave the machine select at  *)
(* its initial value.                                                      *)
(***************************************************************************)
NumberOf(text) == IF text = <<>> THEN 0 ELSE text[1]

\* String.prototype.toUpperCase on the batch numbers in use.
ToUpperCase(s) ==
  CASE s = "acr001" -> "ACR001"
    [] s = " acr001 " -> " ACR001 "
    [] s = "wfp001" -> "WFP001"
    [] s = "new-1"  -> "NEW-1"
    [] OTHER        -> s

\* String.prototype.trim on the batch numbers in use.
Trim(s) ==
  CASE s = " "        -> ""
    [] s = " acr001 " -> "acr001"
    [] OTHER          -> s

\* Array.from({length: settings?.numberOfMachines || 1}, (_, i) => i + 1)
MachineOptions ==
  IF settings = Null \/ settings[1].numberOfMachines = 0 THEN {1}
  ELSE 1..ToLength(settings[1].numberOfMachines)

InputStartDates == {EmptyDate, <<2023, 10, 3>>}

InputMeterTexts == {<<0>>, <<-50>>, <<310>>}

FormsOf(startDates, meterTexts) ==
  { [batchNumber |-> batchTypes[t].batchNumber, machineNumber |-> m, startDate |-> d,
     endDate |-> Today, meterValue |-> mv, color |-> batchTypes[t].color] :
      t \in {1} \cap DOMAIN batchTypes, m \in {1} \cap (MachineOptions \cup {1}),
      d \in startDates, mv \in meterTexts }

AddForms == FormsOf(InputStartDates, InputMeterTexts)

\* A validation that lets a meter value of zero pass (the mutant of C18).
AddBatchModal_validate_allowZero(formData) ==
  ~(formData.meterValue = <<>> \/ NumberOf(formData.meterValue) < 0)

\* !formData.meterValue || isNaN(Number(...)) || Number(...) <= 0
AddBatchModal_validate(formData) ==
  ~(formData.meterValue = <<>> \/ NumberOf(formData.meterValue) <= 0)

\* The argument handleSubmit passes to addBatch.
AddBatchModal_newBatch(formData) ==
  [formData EXCEPT !.batchNumber = ToUpperCase(formData.batchNumber),
                   !.meterValue = NumberOf(formData.meterValue)]

AddBatchModal_handleSubmit(formData) ==
  /\ settings # Null
  /\ ~isEditBatchModalOpen
  /\ Len(batchTypes) > 0
  /\ adds < MaxAdds
  /\ IF AddBatchModal_validate(formData)
     THEN LET list == addBatch(batches, AddBatchModal_newBatch(formData), clock)
          IN  /\ Commit(settings, list, batchTypes, SetItem(store, BatchesKey, list),
                        Some(AddedMessage), TRUE)
              /\ addErrors' = ""
              /\ adds' = adds + 1
     ELSE /\ addErrors' = "Enter a valid meter value."
          /\ UNCHANGED <<containerVars, adds>>
  /\ UNCHANGED <<reportVars, theme, storeFull, clock, edits, editVars>>

(***************************************************************************)
(* AppContent.handleDeleteBatch, from the delete button of a displayed     *)
(* row: window.confirm, then deleteBatch.                                  *)
(***************************************************************************)
DeleteIds == LET c == calculatedBatches IN {c[i].id : i \in DisplayedRows}

AppContent_handleDeleteBatch(batchId, confirmed) ==
  /\ settings # Null
  /\ ~isEditBatchModalOpen
  /\ IF confirmed
     THEN LET list == deleteBatch(batches, batchId)
          IN  Commit(settings, list, batchTypes, SetItem(store, BatchesKey, list),
                     Some(DeletedMessage), TRUE)
     ELSE UNCHANGED containerVars
  /\ UNCHANGED <<reportVars, theme, storeFull, clock, adds, edits, addErrors, editVars>>

(***************************************************************************)
(* The edit flow: AppContent.handleEditBatch from the edit button of a     *)
(* displayed row, EditBatchModal's formData effect, its inputs, validate   *)
(* and handleSubmit.                                                       *)
(***************************************************************************)
\* const { status, ...rest } = batchToEdit
RestOf(batch) == [k \in DOMAIN batch \ {"status"} |-> batch[k]]

\* setBatchToEdit(batch); setIsEditBatchModalOpen(true).  The effect with
\* dependency [batchToEdit] copies the batch into formData when batchToEdit
\* became another object; the same object leaves formData as it was.
AppContent_handleEditBatch(row) ==
  /\ settings # Null
  /\ ~isEditBatchModalOpen
  /\ row \in DisplayedRows
  /\ IF editObjIdx = row
     THEN UNCHANGED <<batchToEdit, editFormData, editObjIdx>>
     ELSE LET batch == calculatedBatches[row]
          IN  /\ batchToEdit' = Some(batch)
              /\ editFormData' = Some(RestOf(batch))
              /\ editObjIdx' = row
  /\ isEditBatchModalOpen' = TRUE
  /\ UNCHANGED <<reportVars, settings, batches, batchTypes, theme, notification, timers,
                 notifiedAt, store, storeFull, clock, adds, edits, addErrors,
                 editErrors>>

\* The onChange handlers of the edit form: the field and the value stored,
\* Number(e.target.value) for the number input and the machine select.
EditChanges ==
  {<<"batchNumber", bn>> : bn \in {" ", "wfp001", "new-1"}}
    \cup {<<"meterValue", mv>> : mv \in {0, 310}}
    \cup {<<"machineNumber", m>> : m \in MachineOptions \cap {2}}

EditBatchModal_onChange(change) ==
  /\ isEditBatchModalOpen
  /\ editFormData # Null
  /\ editFormData' = Some([editFormData[1] EXCEPT ![change[1]] = change[2]])
  /\ UNCHANGED <<reportVars, settings, batches, batchTypes, theme, notification, timers,
                 notifiedAt, store, storeFull, clock, adds, edits, addErrors,
                 batchToEdit, isEditBatchModalOpen, editErrors, editObjIdx>>

\* batches.map(b => b.batchNumber)
existingBatchNumbers == {batches[i].batchNumber : i \in 1..Len(batches)}

\* The errors validate stores; the form is valid when both are empty.
EditBatchModal_validate(formData) ==
  [batchNumber |->
     IF Trim(formData.batchNumber) = "" THEN "Batch number is required."
     ELSE IF /\ ToUpperCase(Trim(formData.batchNumber)) \in existingBatchNumbers
             /\ ToUpperCase(formData.batchNumber) # ToUpperCase(batchToEdit[1].batchNumber)
          THEN "Batch number must be unique."
          ELSE "",
   meterValue |->
     IF formData.meterValue <= 0 THEN "Enter a valid meter value." ELSE ""]

\* The argument handleSubmit passes to updateBatch.
EditBatchModal_updatedBatch(formData) ==
  [k \in DOMAIN formData \cup {"status"} |->
     IF k = "status" THEN batchToEdit[1].status
     ELSE IF k = "batchNumber" THEN ToUpperCase(formData.batchNumber)
     ELSE formData[k]]

EditBatchModal_handleSubmit ==
  /\ isEditBatchModalOpen
  /\ editFormData # Null
  /\ edits < MaxEdits
  /\ LET newErrors == EditBatchModal_validate(editFormData[1])
     IN  /\ editErrors' = newErrors
         /\ IF newErrors.batchNumber = "" /\ newErrors.meterValue = ""
            THEN LET updatedBatch == EditBatchModal_updatedBatch(editFormData[1])
                     list == updateBatch(batches, updatedBatch)
                 IN  /\ Commit(settings, list, batchTypes,
                               SetItem(store, BatchesKey, list),
                               Some(UpdatedMessage(updatedBatch)), TRUE)
                     /\ isEditBatchModalOpen' = FALSE
                     /\ edits' = edits + 1
            ELSE UNCHANGED <<containerVars, isEditBatchModalOpen, edits>>
  /\ UNCHANGED <<reportVars, theme, storeFull, clock, adds, addErrors, batchToEdit, editFormData>>

\* onClose: the Cancel button or a click on the backdrop.
EditBatchModal_onClose ==
  /\ isEditBatchModalOpen
  /\ isEditBatchModalOpen' = FALSE
  /\ UNCHANGED <<reportVars, settings, batches, batchTypes, theme, notification, timers,
                 notifiedAt, store, storeFull, clock, adds, edits, addErrors,
                 batchToEdit, editFormData, editErrors, editObjIdx>>

(***************************************************************************)
(* UserDetailsPage: the add-batch-type form, the colour pickers and the    *)
(* delete buttons of the batch-type cards.                                 *)
(***************************************************************************)
\* batchTypes.map(bt => bt.batchNumber.toUpperCase())
UserDetailsPage_existingBatchNumbers ==
  {ToUpperCase(batchTypes[i].batchNumber) : i \in 1..Len(batchTypes)}

\* existingBatchNumbers.includes(newBatchNumber.trim().toUpperCase())
UserDetailsPage_isTaken(newBatchNumber) ==
  ToUpperCase(Trim(newBatchNumber)) \in UserDetailsPage_existingBatchNumbers

NewBatchNumbers == {"", " ", "acr001", " acr001 ", "new-1", "NEW-1"}

NewBatchColor == "#14b8a6"

UserDetailsPage_handleAddBatchType(newBatchNumber, newBatchColor) ==
  /\ settings # Null
  /\ ~isEditBatchModalOpen
  /\ Len(batchTypes) < Len(MOCK_BATCH_TYPES) + MaxTypeAdds
  /\ IF Trim(newBatchNumber) = ""
     THEN Commit(settings, batches, batchTypes, store,
                 Some(<<"Batch number cannot be empty.">>), FALSE)
     ELSE IF UserDetailsPage_isTaken(newBatchNumber)
     THEN Commit(settings, batches, batchTypes, store,
                 Some(<<"Batch number must be unique.">>), FALSE)
     ELSE LET list == addBatchType(batchTypes,
                                   [batchNumber |-> ToUpperCase(Trim(newBatchNumber)),
                                    color |-> newBatchColor],
                                   clock)
          IN  Commit(settings, batches, list, SetItem(store, BatchTypesKey, list),
                     Some(TypeAddedMessage), FALSE)
  /\ UNCHANGED <<reportVars, theme, storeFull, clock, adds, edits, addErrors, editVars>>

\* The cards offer every batch type; the first and the last are taken.
CardTypeIds ==
  IF batchTypes = <<>> THEN {} ELSE {batchTypes[1].id, batchTypes[Len(batchTypes)].id}

\* handleUpdateColor: updateBatchType({ ...batchType, color }), which sets
\* no notification.
UserDetailsPage_handleUpdateColor(id, color) ==
  /\ settings # Null
  /\ ~isEditBatchModalOpen
  /\ \E i \in 1..Len(batchTypes) : batchTypes[i].id = id
  /\ LET batchType == batchTypes[CHOOSE i \in 1..Len(batchTypes) :
                                   /\ batchTypes[i].id = id
                                   /\ \A j \in 1..(i - 1) : batchTypes[j].id # id]
         list == updateBatchType(batchTypes, [batchType EXCEPT !.color = color])
     IN  Commit(settings, batches, list, SetItem(store, BatchTypesKey, list), Null, FALSE)
  /\ UNCHANGED <<reportVars, theme, storeFull, clock, adds, edits, addErrors, editVars>>

\* handleDelete: window.confirm, then deleteBatchType.
UserDetailsPage_handleDelete(id, confirmed) ==
  /\ settings # Null
  /\ ~isEditBatchModalOpen
  /\ IF confirmed
     THEN LET list == deleteBatchType(batchTypes, id)
          IN  Commit(settings, batches, list, SetItem(store, BatchTypesKey, list),
                     Some(TypeDeletedMessage), FALSE)
     ELSE UNCHANGED containerVars
  /\ UNCHANGED <<reportVars, theme, storeFull, clock, adds, edits, addErrors, editVars>>

(***************************************************************************)
(* ReportsPage.  currentDate is the local calendar day of the Date object   *)
(* the page holds; the AI request is in flight exactly while isGenerating   *)
(* is TRUE (set before the call, cleared in the finally block).             *)
(***************************************************************************)
RECURSIVE SumOf(_, _)
\* list.reduce((sum, b) => sum + b[field], 0)
SumOf(list, field) ==
  IF list = <<>> THEN 0
  ELSE SumOf(SubSeq(list, 1, Len(list) - 1), field) + list[Len(list)][field]

\* calculatedBatches.filter(b => year and month of new Date(b.startDate)
\* equal those of currentDate); NaN equals nothing.
MonthBatchesOf(calculated, date, offset) ==
  SelectSeqIdx(calculated,
               [i \in 1..Len(calculated) |->
                  LET batchDate == LocalDayOf(calculated[i].startDate, offset)
                  IN  /\ batchDate # Null
                      /\ batchDate[1][1] = date[1]
                      /\ batchDate[1][2] = date[2]],
               1)

MonthlyReportOf(list) ==
  [totalBatches |-> Len(list),
   totalMeter   |-> SumOf(list, "meterValue"),
   totalFtotal  |-> SumOf(list, "ftotal")]

monthBatches == MonthBatchesOf(calculatedBatches, currentDate, timezoneOffset)

monthlyReport == MonthlyReportOf(monthBatches)

\* How many months the calendar is after the month of the session's day.
MonthsAway ==
  (calendarDate[1] - currentDate[1]) * 12 + calendarDate[2] - currentDate[2]

\* BatchCalendar.changeMonth(amount) of the calendar's previous and next
\* buttons, the only month buttons of the page: ReportsPage has a changeMonth
\* of its own that nothing calls, so its currentDate stays the day of the
\* first render.
BatchCalendar_changeMonth(amount) ==
  /\ settings # Null
  /\ ~isEditBatchModalOpen
  /\ MonthsAway + amount \in -MaxMonths..MaxMonths
  /\ calendarDate' = SetMonth(calendarDate, calendarDate[2] - 1 + amount)
  /\ UNCHANGED <<currentDate, aiSummary, isGenerating, aiError, timezoneOffset, calculatorVars,
                 containerVars, theme, storeFull, clock, adds, edits, addErrors,
                 editVars>>

\* handleGenerateSummary up to the await; the button is disabled while a
\* request is in flight.
ReportsPage_handleGenerateSummary ==
  /\ settings # Null
  /\ ~isEditBatchModalOpen
  /\ ~isGenerating
  /\ isGenerating' = TRUE
  /\ aiError' = Null
  /\ aiSummary' = ""
  /\ UNCHANGED <<currentDate, calendarDate, timezoneOffset, calculatorVars, containerVars, theme, storeFull,
                 clock, adds, edits, addErrors, editVars>>

\* The texts a response may carry: none, and a summary.
ResponseTexts == {"", "## Monthly summary"}

\* generateContent resolves: setAiSummary(response.text), then finally.
ReportsPage_generateContentResolves(text) ==
  /\ isGenerating
  /\ aiSummary' = text
  /\ isGenerating' = FALSE
  /\ UNCHANGED <<currentDate, calendarDate, aiError, timezoneOffset, calculatorVars, containerVars, theme,
                 storeFull, clock, adds, edits, addErrors, editVars>>

AiErrorOf(errorMessage) ==
  <<"Failed to generate AI summary. Please check your connection or API key. Error: ",
    errorMessage>>

AiErrorNotification == <<"Error generating AI summary.">>

\* generateContent rejects (or the client constructor throws): the catch
\* block, then finally.
ReportsPage_generateContentRejects(errorMessage) ==
  /\ isGenerating
  /\ aiError' = Some(AiErrorOf(errorMessage))
  /\ isGenerating' = FALSE
  /\ Commit(settings, batches, batchTypes, store, Some(AiErrorNotification), FALSE)
  /\ UNCHANGED <<currentDate, calendarDate, aiSummary, timezoneOffset, calculatorVars, theme, storeFull, clock,
                 adds, edits, addErrors, editVars>>

(***************************************************************************)
(* CalculatorModal.  The display is a string, modelled as the sequence of  *)
(* its characters; parseFloat and String convert between it and numbers.   *)
(* The sessions modelled press digit keys only and = only when the result  *)
(* is a whole number of magnitude at most MaxResult, so that every number  *)
(* is an integer.  The modal keeps its state while it is closed, so        *)
(* opening and closing it are left out.                                    *)
(***************************************************************************)
DigitKeys == {"0", "1", "2", "3"}

OperatorKeys == {"+", "-", "*", "/"}

DigitValue(c) ==
  CASE c = "0" -> 0 [] c = "1" -> 1 [] c = "2" -> 2 [] c = "3" -> 3 [] c = "4" -> 4
    [] c = "5" -> 5 [] c = "6" -> 6 [] c = "7" -> 7 [] c = "8" -> 8 [] c = "9" -> 9

DigitChar(d) == <<"0", "1", "2", "3", "4", "5", "6", "7", "8", "9">>[d + 1]

RECURSIVE DigitsValue(_)
DigitsValue(digits) ==
  IF digits = <<>> THEN 0
  ELSE 10 * DigitsValue(SubSeq(digits, 1, Len(digits) - 1))
       + DigitValue(digits[Len(digits)])

\* parseFloat of a display: an optional sign and digits.
parseFloat(string) ==
  IF string[1] = "-" THEN 0 - DigitsValue(Tail(string)) ELSE DigitsValue(string)

RECURSIVE DigitsOf(_)
DigitsOf(n) ==
  IF n < 10 THEN <<DigitChar(n)>> ELSE Append(DigitsOf(n \div 10), DigitChar(n % 10))

\* String(result) of a whole number.
NumberToString(n) == IF n < 0 THEN <<"-">> \o DigitsOf(0 - n) ELSE DigitsOf(n)

Magnitude(n) == IF n < 0 THEN 0 - n ELSE n

Quotient(a, b) ==
  LET q == Magnitude(a) \div Magnitude(b)
  IN  IF (a < 0) = (b < 0) THEN q ELSE 0 - q

\* Whether previousValue op currentValue is a whole number within the bound.
IsWholeResult(op, a, b) ==
  /\ op = "/" => b # 0 /\ Magnitude(a) % Magnitude(b) = 0
  /\ op = "+" => Magnitude(a + b) <= MaxResult
  /\ op = "-" => Magnitude(a - b) <= MaxResult
  /\ op = "*" => Magnitude(a * b) <= MaxResult

\* The switch of handleEquals.
ResultOf(op, a, b) ==
  CASE op = "+" -> a + b
    [] op = "-" -> a - b
    [] op = "*" -> a * b
    [] op = "/" -> IF b = 0 THEN 0 ELSE Quotient(a, b)

\* handleInput's new display.
handleInput(display, value) ==
  IF display = <<"0">> /\ value # "." THEN <<value>>
  ELSE IF value = "." /\ \E i \in 1..Len(display) : display[i] = "." THEN display
  ELSE Append(display, value)

\* The state updates handleEquals queues, computed from the values of the
\* render the handler belongs to; none without a pending operation.
handleEquals(state) ==
  IF state.operator # Null /\ state.previousValue # Null
  THEN [input |-> NumberToString(ResultOf(state.operator[1], state.previousValue[1],
                                          parseFloat(state.input))),
        operator |-> Null,
        previousValue |-> Null]
  ELSE state

\* handleOperator: the updates of handleEquals() are queued first, and the
\* three updates that follow replace them; `input' is still the display of the
\* render the handler belongs to, not the result handleEquals has queued.
handleOperator(state, op) ==
  LET queued == IF state.previousValue # Null THEN handleEquals(state) ELSE state
  IN  [queued EXCEPT !.previousValue = Some(parseFloat(state.input)),
                     !.operator = Some(op),
                     !.input = <<"0">>]

calculatorState == [input |-> input, operator |-> operator, previousValue |-> previousValue]

CalculatorShows(state) ==
  /\ input' = state.input
  /\ operator' = state.operator
  /\ previousValue' = state.previousValue
  /\ UNCHANGED <<currentDate, calendarDate, aiSummary, isGenerating, aiError,
                 timezoneOffset, containerVars, theme, storeFull, clock, adds, edits,
                 addErrors, editVars>>

CalculatorModal_handleInput(value) ==
  /\ settings # Null
  /\ ~isEditBatchModalOpen
  /\ Len(handleInput(input, value)) <= MaxDigits
  /\ handleInput(input, value) # input
  /\ CalculatorShows([calculatorState EXCEPT !.input = handleInput(input, value)])

CalculatorModal_handleOperator(op) ==
  /\ settings # Null
  /\ ~isEditBatchModalOpen
  /\ CalculatorShows(handleOperator(calculatorState, op))

CalculatorModal_handleEquals ==
  /\ settings # Null
  /\ ~isEditBatchModalOpen
  /\ operator # Null
  /\ previousValue # Null
  /\ IsWholeResult(operator[1], previousValue[1], parseFloat(input))
  /\ CalculatorShows(handleEquals(calculatorState))

CalculatorModal_handleClear ==
  /\ settings # Null
  /\ ~isEditBatchModalOpen
  /\ calculatorState # [input |-> <<"0">>, operator |-> Null, previousValue |-> Null]
  /\ CalculatorShows([input |-> <<"0">>, operator |-> Null, previousValue |-> Null])

(***************************************************************************)
(* Header: the theme button (toggleTheme), and the environment of the      *)
(* store: localStorage runs out of quota, or has room again.               *)
(***************************************************************************)
\* prev => prev === 'light' ? 'dark' : 'light'
toggleTheme(prev) == IF prev = "light" THEN "dark" ELSE "light"

Header_toggleTheme ==
  /\ settings # Null
  /\ ~isEditBatchModalOpen
  /\ theme' = toggleTheme(theme)
  /\ Commit(settings, batches, batchTypes, SetItem(store, ThemeKey, toggleTheme(theme)),
            Null, FALSE)
  /\ UNCHANGED <<reportVars, storeFull, clock, adds, edits, addErrors, editVars>>

StorageQuota ==
  /\ storeFull' = ~storeFull
  /\ UNCHANGED <<reportVars, containerVars, theme, clock, adds, edits, addErrors, editVars>>

(***************************************************************************)
(* A consumer of the context that calls addBatch twice in one event        *)
(* handler, that is, without a render in between.  Both calls run in the   *)
(* closure of the same render: setValue evaluates each updater on that     *)
(* render's storedValue, hands the result to setStoredValue and writes it  *)
(* to the store, and the state after the event is the value of the last    *)
(* call.                                                                   *)
(***************************************************************************)
\* value instanceof Function ? value(storedValue) : value, for the updater
\* prev => [batchWithId, ...prev] of addBatch.
setValue_addBatch(storedValue, newBatch, now) == addBatch(storedValue, newBatch, now)

Context_addBatchTwice(a, b) ==
  /\ settings # Null
  /\ ~isEditBatchModalOpen
  /\ adds + 2 <= MaxAdds
  /\ LET first  == setValue_addBatch(batches, a, clock)
         second == setValue_addBatch(batches, b, clock)
     IN  Commit(settings, second, batchTypes,
                SetItem(SetItem(store, BatchesKey, first), BatchesKey, second),
                Some(AddedMessage), TRUE)
  /\ adds' = adds + 2
  /\ UNCHANGED <<reportVars, theme, storeFull, clock, edits, addErrors, editVars>>

(***************************************************************************)
(* Time and the notification timeout.                                      *)
(***************************************************************************)
\* ms milliseconds pass, or fewer when a timeout falls due before: a due
\* timeout runs before the clock moves on.
Elapse(ms) ==
  /\ \A t \in timers : t > clock
  /\ clock' = IF \E t \in timers : t < clock + ms
              THEN CHOOSE t \in timers : \A u \in timers : t <= u
              ELSE clock + ms
  /\ UNCHANGED <<reportVars, settings, batches, batchTypes, theme, notification, timers,
                 notifiedAt, store, storeFull, adds, edits, addErrors, editVars,
                 editObjIdx>>

\* A millisecond passes.
Tick == clock < ClockStart + MaxTicks /\ Elapse(1)

\* Time passes in steps of StepMs up to the horizon.
Advance == clock + StepMs <= ClockStart + HorizonMs /\ Elapse(StepMs)

\* The callback of setTimeout: setNotification(null); the effect's cleanup
\* clears the timeout.
NotificationTimeout ==
  /\ \E t \in timers : t <= clock
  /\ notification' = Null
  /\ timers' = {}
  /\ UNCHANGED <<reportVars, settings, batches, batchTypes, theme, notifiedAt, store, storeFull,
                 clock, adds, edits, addErrors, editVars, editObjIdx>>

(***************************************************************************)
(* The container's life: setup, settings, adding and deleting batches, in  *)
(* millisecond-grained time.                                               *)
(***************************************************************************)
Next ==
  \/ \E f \in WizardForms : SetupWizard_handleComplete(f)
  \/ \E f \in SettingsForms : SettingsPage_handleSettingsSubmit(f)
  \/ \E c \in BOOLEAN : SettingsPage_handleReset(c)
  \/ \E f \in AddForms : AddBatchModal_handleSubmit(f)
  \/ \E id \in DeleteIds, c \in BOOLEAN : AppContent_handleDeleteBatch(id, c)
  \/ Tick

Spec == Init /\ [][Next]_vars

(***************************************************************************)
(* The edit flow in a one-machine setup, on the seeded list and on batches *)
(* added in the same millisecond before the first edit.                    *)
(***************************************************************************)
DefaultWizardForm == [companyName |-> "Geetha Tex", numberOfMachines |-> 30]

OneMachineForm == [companyName |-> "Geetha Tex", numberOfMachines |-> 10]

EditAddForms == FormsOf({<<2023, 10, 3>>}, {<<310>>})

NextEdit ==
  \/ SetupWizard_handleComplete(OneMachineForm)
  \/ \E f \in EditAddForms : batchToEdit = Null /\ AddBatchModal_handleSubmit(f)
  \/ \E row \in DisplayedRows : AppContent_handleEditBatch(row)
  \/ \E change \in EditChanges : EditBatchModal_onChange(change)
  \/ EditBatchModal_handleSubmit
  \/ EditBatchModal_onClose

SpecEdit == Init /\ [][NextEdit]_vars

(***************************************************************************)
(* Notifications over seconds: handlers that notify, the clock and the     *)
(* timeout.                                                                *)
(***************************************************************************)
NextNotify ==
  \/ SetupWizard_handleComplete(DefaultWizardForm)
  \/ \E f \in SettingsForms : SettingsPage_handleSettingsSubmit(f)
  \/ \E id \in DeleteIds : AppContent_handleDeleteBatch(id, TRUE)
  \/ Advance
  \/ NotificationTimeout

SpecNotify == Init /\ [][NextNotify]_vars

(***************************************************************************)
(* The derivation over the meter values the add form accepts.              *)
(***************************************************************************)
MeterForms == FormsOf({<<2023, 10, 3>>}, {<<10 * k>> : k \in 1..MaxMeter})

NextDerive ==
  \/ SetupWizard_handleComplete(DefaultWizardForm)
  \/ \E f \in MeterForms : adds = 0 /\ AddBatchModal_handleSubmit(f)
  \/ \E id \in DeleteIds : AppContent_handleDeleteBatch(id, TRUE)

SpecDerive == Init /\ [][NextDerive]_vars

(***************************************************************************)
(* The batch types: the add form and the cards' colour pickers and delete  *)
(* buttons, in millisecond-grained time.                                   *)
(***************************************************************************)
NextTypes ==
  \/ SetupWizard_handleComplete(DefaultWizardForm)
  \/ \E n \in NewBatchNumbers : UserDetailsPage_handleAddBatchType(n, NewBatchColor)
  \/ \E id \in CardTypeIds : UserDetailsPage_handleUpdateColor(id, "#000000")
  \/ \E id \in CardTypeIds, c \in BOOLEAN : UserDetailsPage_handleDelete(id, c)
  \/ Tick

SpecTypes == Init /\ [][NextTypes]_vars

(***************************************************************************)
(* The reports page, in a zone west and a zone east of UTC: setup, adds    *)
(* with today's start date and without one, deletes, the calendar's month  *)
(* buttons and the AI summary request.                                     *)
(***************************************************************************)
InitReports == \E offset \in TimezoneOffsets : InitIn(offset)

ReportAddForms == FormsOf({EmptyDate, Today}, {<<310>>})

ErrorMessages == {"Failed to fetch"}

NextReports ==
  \/ SetupWizard_handleComplete(DefaultWizardForm)
  \/ \E f \in ReportAddForms : AddBatchModal_handleSubmit(f)
  \/ \E id \in DeleteIds : AppContent_handleDeleteBatch(id, TRUE)
  \/ \E amount \in {-1, 1} : BatchCalendar_changeMonth(amount)
  \/ ReportsPage_handleGenerateSummary
  \/ \E text \in ResponseTexts : ReportsPage_generateContentResolves(text)
  \/ \E e \in ErrorMessages : ReportsPage_generateContentRejects(e)

SpecReports == InitReports /\ [][NextReports]_vars

(***************************************************************************)
(* The settings: the wizard and the settings form with every kind of text  *)
(* the two fields take (an empty name, a count of 0, 0.5, 1, 2.5 or 3),    *)
(* reset and deletes.                                                      *)
(***************************************************************************)
AnyWizardForms ==
  [companyName : {"", "Geetha Tex"}, numberOfMachines : {0, 5, 10, 25, 30}]

AnySettingsForms ==
  [companyName : {"", "Geetha Tex"}, numberOfMachines : {0, 5, 10, 25, 30}]

NextSettings ==
  \/ \E f \in AnyWizardForms : SetupWizard_handleComplete(f)
  \/ \E f \in AnySettingsForms : SettingsPage_handleSettingsSubmit(f)
  \/ \E c \in BOOLEAN : SettingsPage_handleReset(c)
  \/ \E id \in DeleteIds : AppContent_handleDeleteBatch(id, TRUE)

SpecSettings == Init /\ [][NextSettings]_vars

(***************************************************************************)
(* The meter value of the two forms, on one machine: adds and edits with a *)
(* zero, a negative and a positive value.  An empty add field never        *)
(* reaches handleSubmit (the input is required); the edit form turns an    *)
(* empty field into Number('') = 0.                                        *)
(***************************************************************************)
MeterAddForms == FormsOf({<<2023, 10, 3>>}, InputMeterTexts)

MeterChanges == {<<"meterValue", mv>> : mv \in {0, -50, 310}}

NextMeter ==
  \/ SetupWizard_handleComplete(OneMachineForm)
  \/ \E f \in MeterAddForms : batchToEdit = Null /\ AddBatchModal_handleSubmit(f)
  \/ \E i \in DisplayedRows : AppContent_handleEditBatch(i)
  \/ \E c \in MeterChanges : EditBatchModal_onChange(c)
  \/ EditBatchModal_handleSubmit
  \/ EditBatchModal_onClose

SpecMeter == Init /\ [][NextMeter]_vars

(***************************************************************************)
(* The store: every mutating operation of the container (settings, reset,  *)
(* batches, batch types, theme, with the seeding that follows), first with *)
(* a store that takes every write, then with one that refuses writes from  *)
(* time to time.                                                           *)
(***************************************************************************)
StoreAddForms == FormsOf({<<2023, 10, 3>>}, {<<310>>})

NextMirror ==
  \/ SetupWizard_handleComplete(OneMachineForm)
  \/ SettingsPage_handleSettingsSubmit(DefaultWizardForm)
  \/ \E c \in BOOLEAN : SettingsPage_handleReset(c)
  \/ \E f \in StoreAddForms : batchToEdit = Null /\ AddBatchModal_handleSubmit(f)
  \/ \E id \in DeleteIds \cap {1} : AppContent_handleDeleteBatch(id, TRUE)
  \/ \E row \in DisplayedRows \cap {1} : AppContent_handleEditBatch(row)
  \/ EditBatchModal_handleSubmit
  \/ UserDetailsPage_handleAddBatchType("new-1", NewBatchColor)
  \/ \E id \in CardTypeIds \cap {1} : UserDetailsPage_handleUpdateColor(id, "#000000")
  \/ \E id \in CardTypeIds \ {1} : UserDetailsPage_handleDelete(id, TRUE)
  \/ Header_toggleTheme

SpecMirror == Init /\ [][NextMirror]_vars

NextStore ==
  \/ SetupWizard_handleComplete(OneMachineForm)
  \/ SettingsPage_handleSettingsSubmit(DefaultWizardForm)
  \/ \E f \in StoreAddForms : AddBatchModal_handleSubmit(f)
  \/ \E id \in DeleteIds \cap {1} : AppContent_handleDeleteBatch(id, TRUE)
  \/ UserDetailsPage_handleAddBatchType("new-1", NewBatchColor)
  \/ Header_toggleTheme
  \/ StorageQuota

SpecStore == Init /\ [][NextStore]_vars

(***************************************************************************)
(* Batches and batch types together, on three machines so that every batch *)
(* has a delete button: the user adds a batch type, recolours one, and     *)
(* adds and deletes batches down to the last one.                          *)
(***************************************************************************)
NextFrame ==
  \/ SetupWizard_handleComplete(DefaultWizardForm)
  \/ UserDetailsPage_handleAddBatchType("new-1", NewBatchColor)
  \/ \E id \in CardTypeIds \cap {1} : UserDetailsPage_handleUpdateColor(id, "#000000")
  \/ \E f \in StoreAddForms : AddBatchModal_handleSubmit(f)
  \/ \E id \in DeleteIds : AppContent_handleDeleteBatch(id, TRUE)

SpecFrame == Init /\ [][NextFrame]_vars

(***************************************************************************)
(* Two calls of a mutator in one event, among adds and deletes on three    *)
(* machines.                                                               *)
(***************************************************************************)
CallerBatches ==
  {AddBatchModal_newBatch(f) : f \in FormsOf({<<2023, 10, 3>>}, {<<310>>, <<500>>})}

NextCalls ==
  \/ SetupWizard_handleComplete(DefaultWizardForm)
  \/ \E a, b \in CallerBatches : Context_addBatchTwice(a, b)
  \/ \E f \in StoreAddForms : AddBatchModal_handleSubmit(f)
  \/ \E id \in DeleteIds : AppContent_handleDeleteBatch(id, TRUE)

SpecCalls == Init /\ [][NextCalls]_vars

(***************************************************************************)
(* The calendar on sessions of several days of the month, the last days    *)
(* included: setup, the month buttons and the AI summary request.          *)
(***************************************************************************)
SessionDays == {Today, <<2023, 10, 31>>, <<2024, 1, 29>>, <<2024, 1, 31>>}

InitCalendar ==
  \E today \in SessionDays, offset \in TimezoneOffsets : InitOn(today, offset)

NextCalendar ==
  \/ SetupWizard_handleComplete(DefaultWizardForm)
  \/ \E amount \in {-1, 1} : BatchCalendar_changeMonth(amount)
  \/ ReportsPage_handleGenerateSummary
  \/ \E text \in ResponseTexts : ReportsPage_generateContentResolves(text)
  \/ \E e \in ErrorMessages : ReportsPage_generateContentRejects(e)

SpecCalendar == InitCalendar /\ [][NextCalendar]_vars

(***************************************************************************)
(* The calculator: setup, then its keys.                                   *)
(***************************************************************************)
NextCalculator ==
  \/ SetupWizard_handleComplete(DefaultWizardForm)
  \/ \E value \in DigitKeys : CalculatorModal_handleInput(value)
  \/ \E op \in OperatorKeys : CalculatorModal_handleOperator(op)
  \/ CalculatorModal_handleEquals
  \/ CalculatorModal_handleClear

SpecCalculator == Init /\ [][NextCalculator]_vars

(***************************************************************************)
(* Vocabulary of the properties.                                           *)
(***************************************************************************)
IdsOf(list) == {list[i].id : i \in 1..Len(list)}

MockIds == {MOCK_BATCHES[i].id : i \in 1..Len(MOCK_BATCHES)}

\* The batches of list whose id differs from batchId, in the order of list.
WithoutId(list, batchId) == SelectSeq(list, LAMBDA b : b.id # batchId)

\* A calculated batch without its derived fields.
StoredPart(c) == [k \in DOMAIN c \ {"ftotal", "average"} |-> c[k]]

HowMany(list, x) == Cardinality({i \in 1..Len(list) : list[i] = x})

IsPermutation(s, t) ==
  /\ Len(s) = Len(t)
  /\ \A i \in 1..Len(s) : HowMany(s, s[i]) = HowMany(t, s[i])

HasDate(b) == b.startDate # EmptyDate

DayOf(b) == DaysFromCivil(b.startDate[1], b.startDate[2], b.startDate[3])

(***************************************************************************)
(* C1.  First-run seeding happens at most once: while Settings stay        *)
(* present, a mock batch the user has deleted never reappears, so once     *)
(* every batch is deleted the list stays empty.                            *)
(* Stated for every step: with settings present before and after, a mock   *)
(* id absent before the step is absent after it, and a delete that removes *)
(* the last batch leaves the list empty.                                   *)
(***************************************************************************)
C1_SeedingAtMostOnce ==
  [][ (settings # Null /\ settings' # Null) =>
        /\ \A id \in MockIds : id \notin IdsOf(batches) => id \notin IdsOf(batches')
        /\ \A id \in DeleteIds :
             (AppContent_handleDeleteBatch(id, TRUE) /\ WithoutId(batches, id) = <<>>)
               => batches' = <<>> ]_vars

(***************************************************************************)
(* C2.  deleteBatch(id), once its follow-up effects have settled, leaves   *)
(* the previous list without the batch carrying that id, every other batch *)
(* unchanged and in the same order (also when the only remaining batch is  *)
(* deleted); with no batch of that id the list is unchanged (0 is the id   *)
(* of no batch).                                                           *)
(***************************************************************************)
C2_DeleteRemovesExactlyThatId ==
  [][ \A id \in DeleteIds :
        AppContent_handleDeleteBatch(id, TRUE) =>
          /\ batches' = WithoutId(batches, id)
          /\ (id \notin IdsOf(batches) => batches' = batches)
          /\ deleteBatch(batches, 0) = batches ]_vars

(***************************************************************************)
(* C3.  In every reachable state the ids of the batches in the list are    *)
(* pairwise distinct.                                                      *)
(***************************************************************************)
C3_BatchIdsDistinct ==
  \A i, j \in 1..Len(batches) : i # j => batches[i].id # batches[j].id

(***************************************************************************)
(* C4.  After addBatch(input) the list is the new batch followed by the    *)
(* previous list, unchanged and in the same order: the new batch is at     *)
(* index 0, its status is 'In Progress' whatever the input carried, its    *)
(* other fields equal the input, and the length grew by exactly one.       *)
(* Stated for every accepted submission of the add form, and for addBatch  *)
(* applied to the same input carrying another status.                      *)
(***************************************************************************)
C4_InputOf(f, st) ==
  [k \in DOMAIN f \cup {"status"} |->
     IF k = "status" THEN st
     ELSE IF k = "meterValue" THEN NumberOf(f.meterValue)
     ELSE f[k]]

C4_IsInputPrepended(newBatch, before, after) ==
  /\ Len(after) = Len(before) + 1
  /\ Tail(after) = before
  /\ after[1].status = "In Progress"
  /\ \A k \in DOMAIN newBatch \ {"status"} : after[1][k] = newBatch[k]

C4_AddBatchPrepends ==
  [][ \A f \in AddForms :
        (AddBatchModal_handleSubmit(f) /\ AddBatchModal_validate(f)) =>
          /\ C4_IsInputPrepended(C4_InputOf(f, "In Progress"), batches, batches')
          /\ batches'[1].id = clock
          /\ \A st \in {"Completed", "Delayed"} :
               C4_IsInputPrepended(C4_InputOf(f, st), batches,
                                   addBatch(batches, C4_InputOf(f, st), clock)) ]_vars

\* An add has acted on a list that held batches.
C4_Witness ==
  /\ notification = Some(AddedMessage)
  /\ Len(batches) > 1
  /\ batches[1].id >= ClockStart

(***************************************************************************)
(* C5.  After updateBatch(updated), called by the edit form, the list has  *)
(* the same length and order; the batch at the edited position has the     *)
(* same id and the same status as before; every batch whose id differs is  *)
(* unchanged; and if no batch has that id the list is unchanged (0 is the  *)
(* id of no batch).                                                        *)
(***************************************************************************)
C5_UpdateKeepsShape ==
  [][ (EditBatchModal_handleSubmit /\ edits' = edits + 1) =>
        LET id == editFormData[1].id
        IN  /\ Len(batches') = Len(batches)
            /\ [i \in 1..Len(batches') |-> batches'[i].id]
                 = [i \in 1..Len(batches) |-> batches[i].id]
            /\ \E i \in 1..Len(batches) : batches[i].id = id
            /\ \A i \in 1..Len(batches) :
                 IF batches[i].id = id
                 THEN batches'[i].status = batches[i].status
                 ELSE batches'[i] = batches[i]
            /\ updateBatch(batches, [batchToEdit[1] EXCEPT !.id = 0]) = batches ]_vars

\* The edit form has renamed the third mock batch, which is not the first
\* of the list.
C5_Witness ==
  /\ edits > 0
  /\ notification = Some(<<"Batch ", "NEW-1", " updated!">>)
  /\ \E i \in 2..Len(batches) : batches[i].id = 3 /\ batches[i].batchNumber = "NEW-1"

(***************************************************************************)
(* C6.  The notification is cleared 3 seconds after the most recent time   *)
(* it was set, also when the new text is identical to the one shown: a     *)
(* message set at time t is shown until t + 3000, and cleared only then.   *)
(* Stated for every state: once a message has been set, no message is      *)
(* shown only from 3000 ms after the latest set on, and a message is shown *)
(* only up to 3000 ms after the latest set.                                *)
(***************************************************************************)
C6_ClearedThreeSecondsAfterLatestSet ==
  notifiedAt # Null =>
    /\ notification = Null => clock >= notifiedAt[1] + 3000
    /\ notification # Null => clock <= notifiedAt[1] + 3000

(***************************************************************************)
(* C7.  For every batch of the derived list, ftotal is meterValue / 4      *)
(* rounded to the nearest integer, and average is 0 when ftotal is 0 and   *)
(* otherwise meterValue / ftotal rounded to 2 decimals.                    *)
(* In fixed point (meterValue in tenths, average in hundredths): ftotal is *)
(* within 1/2 of meterValue / 40, and average / 100 within 1/200 of        *)
(* meterValue / (10 * ftotal).                                             *)
(***************************************************************************)
AbsDiff(a, b) == IF a >= b THEN a - b ELSE b - a

C7_DerivationRounds ==
  LET c == calculatedBatches
  IN  \A i \in 1..Len(c) :
        /\ AbsDiff(40 * c[i].ftotal, c[i].meterValue) <= 20
        /\ c[i].ftotal = 0 => c[i].average = 0
        /\ c[i].ftotal # 0 =>
             2 * AbsDiff(c[i].average * c[i].ftotal, 10 * c[i].meterValue) <= c[i].ftotal

\* The derived list holds a batch whose ftotal is 0 and a batch whose
\* average is a rounded quotient.
C7_Witness ==
  LET c == calculatedBatches
  IN  \E i, j \in 1..Len(c) :
        /\ c[i].meterValue > 0 /\ c[i].ftotal = 0 /\ c[i].average = 0
        /\ c[j].ftotal > 0 /\ c[j].average * c[j].ftotal # 10 * c[j].meterValue

(***************************************************************************)
(* C8.  As claimed: for meterValue = 1250.5 (the first mock batch) the     *)
(* derivation yields ftotal = 313 and average = 3.997.                     *)
(* The average is held in hundredths, so 3.997 is 10 * average = 3997.     *)
(***************************************************************************)
C8_AsClaimed ==
  LET c == calculatedBatches
  IN  \A i \in 1..Len(c) :
        c[i].meterValue = 12505 => c[i].ftotal = 313 /\ 10 * c[i].average = 3997

(***************************************************************************)
(* C8, amended.  For meterValue = 1250.5 the derivation yields ftotal =    *)
(* 313 and average = 4 (1250.5 / 313 = 3.9952..., which toFixed(2) rounds  *)
(* to 4.00).                                                               *)
(***************************************************************************)
C8_MockDerivation ==
  LET c == calculatedBatches
  IN  \A i \in 1..Len(c) :
        c[i].meterValue = 12505 => c[i].ftotal = 313 /\ c[i].average = 400

\* The first mock batch is in the derived list.
C8_Witness ==
  LET c == calculatedBatches
  IN  \E i \in 1..Len(c) : c[i].id = 1 /\ c[i].meterValue = 12505

(***************************************************************************)
(* C9.  The derived list is a permutation of the stored list, sorted by    *)
(* startDate descending, and the sort is stable: batches with equal        *)
(* startDate keep the relative order they have in the stored list.         *)
(* Read in the claim's favour: only batches that have a start date are     *)
(* compared for the descending order.                                      *)
(***************************************************************************)
C9_SortedDescendingStable ==
  LET c == calculatedBatches
      stored == [i \in 1..Len(c) |-> StoredPart(c[i])]
  IN  /\ IsPermutation(stored, batches)
      /\ \A i, j \in 1..Len(c) :
           (i < j /\ HasDate(c[i]) /\ HasDate(c[j])) => DayOf(c[i]) >= DayOf(c[j])
      /\ \A i \in 1..Len(c) :
           SelectSeq(stored, LAMBDA b : b.startDate = c[i].startDate)
             = SelectSeq(batches, LAMBDA b : b.startDate = c[i].startDate)

(***************************************************************************)
(* C10.  The per-machine aggregation returns one bucket per machine number *)
(* 1..N, in ascending order, also for a machine without batches; each      *)
(* bucket holds exactly the derived batches of its machine, in the derived *)
(* order.  With N = 3 and batches on machines {1, 1, 2} the bucket sizes   *)
(* are 2, 1, 0.                                                            *)
(***************************************************************************)
\* The machine numbers 1..N of a machine count n (in tenths).
MachineNumbersUpTo(n) == {k \in 1..(IF n > 0 THEN n ELSE 0) : 10 * k <= n}

C10_MachinesAre112 ==
  /\ settings # Null
  /\ settings[1].numberOfMachines = 30
  /\ Len(batches) = 3
  /\ \E p, q, r \in 1..3 :
       /\ {p, q, r} = {1, 2, 3}
       /\ batches[p].machineNumber = 1 /\ batches[q].machineNumber = 1
       /\ batches[r].machineNumber = 2

C10_OneBucketPerMachine ==
  settings # Null =>
    LET n == settings[1].numberOfMachines
        c == calculatedBatches
        buckets == batchesByMachine
    IN  /\ Len(buckets) = Cardinality(MachineNumbersUpTo(n))
        /\ \A i \in 1..Len(buckets) :
             /\ buckets[i].machineNumber = i
             /\ buckets[i].batches = SelectSeq(c, LAMBDA b : b.machineNumber = i)
        /\ C10_MachinesAre112 =>
             [i \in 1..Len(buckets) |-> Len(buckets[i].batches)] = <<2, 1, 0>>

\* Three machines, batches on machines {1, 1, 2}: machine 3 has none.
C10_Witness == C10_MachinesAre112

(***************************************************************************)
(* C11.  In every reachable state no two batch types have batch numbers    *)
(* that are equal ignoring case.  Submitting the add-batch-type form with  *)
(* a number that, trimmed and ignoring case, equals the number of an       *)
(* existing batch type is rejected and leaves the batch-type list          *)
(* unchanged; a distinct non-empty number is appended to the list and is   *)
(* in it afterwards.                                                       *)
(***************************************************************************)
C11_EqualIgnoringCase(a, b) == ToUpperCase(a) = ToUpperCase(b)

C11_NoTwoTypesAlike ==
  \A i, j \in 1..Len(batchTypes) :
    i # j => ~C11_EqualIgnoringCase(batchTypes[i].batchNumber, batchTypes[j].batchNumber)

C11_BatchTypeNumbersUnique ==
  /\ [] C11_NoTwoTypesAlike
  /\ [][ \A n \in NewBatchNumbers :
           UserDetailsPage_handleAddBatchType(n, NewBatchColor) =>
             IF \E i \in 1..Len(batchTypes) :
                  C11_EqualIgnoringCase(Trim(n), batchTypes[i].batchNumber)
             THEN batchTypes' = batchTypes
             ELSE Trim(n) # "" =>
                    /\ Len(batchTypes') = Len(batchTypes) + 1
                    /\ SubSeq(batchTypes', 1, Len(batchTypes)) = batchTypes
                    /\ C11_EqualIgnoringCase(batchTypes'[Len(batchTypes')].batchNumber, Trim(n))
         ]_vars

(***************************************************************************)
(* C13.  Whenever an AI summary request completes, with a response of any  *)
(* text (the empty text included) or with a failure, isGenerating is false *)
(* afterwards and exactly one of the two holds: aiSummary is non-empty, or *)
(* aiError is set.                                                         *)
(***************************************************************************)
C13_RequestCompletes ==
  \/ \E text \in ResponseTexts : ReportsPage_generateContentResolves(text)
  \/ \E e \in ErrorMessages : ReportsPage_generateContentRejects(e)

C13_SummaryOrError ==
  [][ C13_RequestCompletes =>
        /\ ~isGenerating'
        /\ (aiSummary' # "") # (aiError' # Null) ]_vars

(***************************************************************************)
(* C14.  The totals of the monthly report are the count, the sum of        *)
(* meterValue and the sum of ftotal over the derived batches whose         *)
(* startDate lies in the selected year and month; when no batch matches    *)
(* they are all 0.                                                         *)
(***************************************************************************)
C14_StartsInSelectedMonth(b) ==
  /\ HasDate(b)
  /\ b.startDate[1] = currentDate[1]
  /\ b.startDate[2] = currentDate[2]

C14_TotalsOfSelectedMonth ==
  settings # Null =>
    LET expected == SelectSeq(calculatedBatches, C14_StartsInSelectedMonth)
        report   == monthlyReport
    IN  /\ report.totalBatches = Len(expected)
        /\ report.totalMeter = SumOf(expected, "meterValue")
        /\ report.totalFtotal = SumOf(expected, "ftotal")
        /\ expected = <<>> =>
              report = [totalBatches |-> 0, totalMeter |-> 0, totalFtotal |-> 0]

(***************************************************************************)
(* C15.  While Settings are present every batch has a whole machineNumber  *)
(* with 1 <= machineNumber <= settings.numberOfMachines (numberOfMachines  *)
(* is in tenths); in particular after the seeding with any configured      *)
(* machine count and after the count is changed in the settings form.      *)
(***************************************************************************)
C15_MachineNumbersWithinCount ==
  settings # Null =>
    \A i \in 1..Len(batches) :
      /\ batches[i].machineNumber \in Nat
      /\ 1 <= batches[i].machineNumber
      /\ 10 * batches[i].machineNumber <= settings[1].numberOfMachines

(***************************************************************************)
(* C16.  ftotal and average are never persisted: after any sequence of     *)
(* add, edit (open the modal, submit the form), delete and seeding, no     *)
(* batch record of the container, and none in the store under the batches  *)
(* key, has an ftotal or an average field.                                 *)
(***************************************************************************)
C16_HasDerivedField(b) == {"ftotal", "average"} \cap DOMAIN b # {}

C16_DerivedFieldsNotPersisted ==
  /\ \A i \in 1..Len(batches) : ~C16_HasDerivedField(batches[i])
  /\ store[BatchesKey] # Null =>
        \A i \in 1..Len(store[BatchesKey][2]) :
          ~C16_HasDerivedField(store[BatchesKey][2][i])

(***************************************************************************)
(* C17.  While Settings are present numberOfMachines is a whole number of  *)
(* at least 1 (10 tenths) and companyName is non-empty; completing the     *)
(* wizard or submitting the settings form with numberOfMachines below 1    *)
(* does not change the stored Settings.                                    *)
(***************************************************************************)
C17_SettingsValid ==
  settings # Null =>
    /\ settings[1].numberOfMachines % 10 = 0
    /\ settings[1].numberOfMachines >= 10
    /\ settings[1].companyName # ""

C17_SettingsStayValid ==
  /\ [] C17_SettingsValid
  /\ [][ \A f \in AnyWizardForms \cup AnySettingsForms :
           /\ f.numberOfMachines < 10
           /\ SetupWizard_handleComplete(f) \/ SettingsPage_handleSettingsSubmit(f)
           => /\ settings' = settings
              /\ store'[SettingsKey] = store[SettingsKey] ]_vars

(***************************************************************************)
(* C18.  Every batch has meterValue > 0 in every reachable state.  A       *)
(* submission of the add form or of the edit form whose meter value is     *)
(* empty, zero or negative is blocked: it sets the field error, calls      *)
(* neither addBatch nor updateBatch and leaves the batch list (and the     *)
(* store and the notification) unchanged.                                  *)
(***************************************************************************)
C18_MeterError == "Enter a valid meter value."

C18_MetersPositive == \A i \in 1..Len(batches) : batches[i].meterValue > 0

C18_Blocked ==
  /\ batches' = batches
  /\ store' = store
  /\ notification' = notification

C18_MeterValidated ==
  /\ [] C18_MetersPositive
  /\ [][ /\ \A f \in MeterAddForms :
             ~AddBatchModal_validate([f EXCEPT !.meterValue = <<>>])
         /\ \A f \in MeterAddForms :
             NumberOf(f.meterValue) <= 0 /\ AddBatchModal_handleSubmit(f)
               => C18_Blocked /\ addErrors' = C18_MeterError
         /\ editFormData # Null /\ EditBatchModal_handleSubmit
               => IF editFormData[1].meterValue <= 0
                  THEN /\ C18_Blocked
                       /\ editErrors'.meterValue = C18_MeterError
                       /\ isEditBatchModalOpen'
                  ELSE editErrors'.meterValue = "" ]_vars

\* An add and an edit have both been refused for their meter value, and an
\* add has gone through.
C18_Witness ==
  /\ addErrors = C18_MeterError
  /\ editErrors.meterValue = C18_MeterError
  /\ isEditBatchModalOpen
  /\ Len(batches) > Len(MOCK_BATCHES)

(***************************************************************************)
(* C19.  When a write to the store fails, the operation still takes effect *)
(* in memory (the handler runs to its end, notification included), the     *)
(* value persisted under the key keeps its previous content, and later     *)
(* operations continue from the in-memory value: the next write that       *)
(* succeeds persists the whole in-memory value.                            *)
(***************************************************************************)
C19_TakesEffectInMemory ==
  /\ SetupWizard_handleComplete(OneMachineForm)
       => settings' = Some(OneMachineForm) /\ batches' = SeedBatches
  /\ SettingsPage_handleSettingsSubmit(DefaultWizardForm)
       => settings' = Some(DefaultWizardForm) /\ notification' = Some(SettingsMessage)
  /\ \A f \in StoreAddForms :
       AddBatchModal_handleSubmit(f)
         => /\ batches' = addBatch(batches, AddBatchModal_newBatch(f), clock)
            /\ notification' = Some(AddedMessage)
  /\ AppContent_handleDeleteBatch(1, TRUE)
       => batches' = deleteBatch(batches, 1) /\ notification' = Some(DeletedMessage)
  /\ UserDetailsPage_handleAddBatchType("new-1", NewBatchColor)
       => \/ batchTypes' = batchTypes
          \/ /\ Len(batchTypes') = Len(batchTypes) + 1
             /\ notification' = Some(TypeAddedMessage)
  /\ Header_toggleTheme => theme' = toggleTheme(theme)

C19_FailedWriteKeepsMemory ==
  [][ /\ storeFull => store' = store /\ C19_TakesEffectInMemory
      /\ ~storeFull /\ batches' # batches => store'[BatchesKey] = JsonStringify(batches')
      /\ ~storeFull /\ settings' # settings
           => store'[SettingsKey] = JsonStringify(settings') ]_vars

\* An add went through in memory while its write failed: the list is longer
\* than the persisted one.
C19_Witness ==
  /\ storeFull
  /\ store[BatchesKey] = JsonStringify(SeedBatches)
  /\ Len(batches) > Len(SeedBatches)
  /\ notification = Some(AddedMessage)

(***************************************************************************)
(* C20.  The in-memory state mirrors the store: when no write fails, after *)
(* every completed mutating operation (batches, batch types, settings,     *)
(* theme, seeding, reset) the value persisted under each of the four keys  *)
(* that has been written is the in-memory value, a value that left its     *)
(* initial value has been written, and a step that is no mutating          *)
(* operation leaves the store alone.                                       *)
(***************************************************************************)
C20_Mirrors(key, value, initialValue) ==
  IF store[key] = Null THEN value = initialValue
  ELSE store[key] = <<"json", value>>

C20_AllKeysMirror ==
  /\ C20_Mirrors(SettingsKey, settings, Null)
  /\ C20_Mirrors(BatchesKey, batches, <<>>)
  /\ C20_Mirrors(BatchTypesKey, batchTypes, <<>>)
  /\ C20_Mirrors(ThemeKey, theme, "light")

\* The one step of this specification that is no mutating operation opens
\* the edit modal.
C20_StoreMirrorsMemory ==
  /\ [] C20_AllKeysMirror
  /\ [][ ~isEditBatchModalOpen /\ isEditBatchModalOpen' => store' = store ]_vars

\* Every key has been written, the theme toggled and a batch edited.
C20_Witness ==
  /\ \A key \in StoreKeys : store[key] # Null
  /\ theme = "dark"
  /\ edits > 0
  /\ Len(batchTypes) # Len(MOCK_BATCH_TYPES)

(***************************************************************************)
(* C21.  Submitting the edit form with a batchNumber that equals, ignoring *)
(* case, the batchNumber of a different batch of the list is rejected with *)
(* the 'must be unique' field error and leaves the batch list unchanged; a *)
(* submission that keeps the batch's own number, or uses a non-empty       *)
(* number no other batch has, is accepted (the meter value being valid).   *)
(***************************************************************************)
C21_TakenByAnotherBatch(batchNumber, id) ==
  \E i \in 1..Len(batches) :
    /\ batches[i].id # id
    /\ ToUpperCase(batches[i].batchNumber) = ToUpperCase(batchNumber)

C21_EditKeepsNumbersUnique ==
  [][ editFormData # Null /\ EditBatchModal_handleSubmit =>
        IF C21_TakenByAnotherBatch(editFormData[1].batchNumber, batchToEdit[1].id)
        THEN /\ editErrors'.batchNumber = "Batch number must be unique."
             /\ batches' = batches
        ELSE Trim(editFormData[1].batchNumber) # "" /\ editFormData[1].meterValue > 0
               => /\ editErrors'.batchNumber = ""
                  /\ ~isEditBatchModalOpen' ]_vars

(***************************************************************************)
(* C22.  updateBatchType never changes the notification: after             *)
(* updateBatchType(t), called by the colour input of a card, the           *)
(* notification and its pending timeout are what they were, the batch type *)
(* with t's id is replaced by t in place, and the length and order of the  *)
(* list and every other batch type are unchanged.                          *)
(***************************************************************************)
C22_FirstWithId(id) ==
  CHOOSE i \in 1..Len(batchTypes) :
    /\ batchTypes[i].id = id
    /\ \A j \in 1..(i - 1) : batchTypes[j].id # id

C22_UpdateTypeInPlace ==
  [][ \A id \in CardTypeIds :
        UserDetailsPage_handleUpdateColor(id, "#000000") =>
          LET p == C22_FirstWithId(id)
              t == [batchTypes[p] EXCEPT !.color = "#000000"]
          IN  /\ notification' = notification
              /\ timers' = timers
              /\ notifiedAt' = notifiedAt
              /\ Len(batchTypes') = Len(batchTypes)
              /\ \A i \in 1..Len(batchTypes) :
                   batchTypes'[i] = IF i = p THEN t ELSE batchTypes[i] ]_vars

(***************************************************************************)
(* C23.  The batch-type operations have no effect on the batches: adding a *)
(* batch type, changing its colour and deleting it leave the batch list    *)
(* (every field of every batch, and the order) unchanged, the batches      *)
(* numbered like the changed or deleted type included.                     *)
(***************************************************************************)
C23_TypeOperation ==
  \/ UserDetailsPage_handleAddBatchType("new-1", NewBatchColor)
  \/ \E id \in CardTypeIds :
       \/ UserDetailsPage_handleUpdateColor(id, "#000000")
       \/ UserDetailsPage_handleDelete(id, TRUE)

C23_TypeOperationsKeepBatches ==
  [][ C23_TypeOperation => batches' = batches /\ store'[BatchesKey] = store[BatchesKey] ]_vars

\* The batch type ACR001 has a new colour, another mock type is gone, and
\* the list holds an added batch and the mock batch ACR001 with its colour.
C23_Witness ==
  /\ Len(batches) > Len(MOCK_BATCHES)
  /\ \E i \in 1..Len(batches) :
       batches[i].batchNumber = "ACR001" /\ batches[i].color = "#16a34a"
  /\ \E i \in 1..Len(batchTypes) :
       batchTypes[i].batchNumber = "ACR001" /\ batchTypes[i].color = "#000000"
  /\ \A i \in 1..Len(batchTypes) : batchTypes[i].batchNumber # "SUMMER-LITE"

(***************************************************************************)
(* C25.  The batch operations never modify the batch-type list: after an   *)
(* add or a delete of a batch (the delete of the last remaining batch      *)
(* included, once the effects that follow have run) the batch-type list,   *)
(* with the types the user added and the colours they chose, is what it    *)
(* was before.                                                             *)
(***************************************************************************)
C25_BatchOperation ==
  \/ \E f \in StoreAddForms : AddBatchModal_handleSubmit(f)
  \/ \E id \in IdsOf(batches) : AppContent_handleDeleteBatch(id, TRUE)

C25_BatchOperationsKeepTypes ==
  [][ C25_BatchOperation => batchTypes' = batchTypes ]_vars

(***************************************************************************)
(* C24.  A confirmed reset returns the application to its initial state:   *)
(* afterwards the settings are absent (the setup wizard is shown), the     *)
(* batch list is empty and the batch-type list is empty, in memory and in  *)
(* the store; a declined confirmation changes nothing.                     *)
(***************************************************************************)
C24_HoldsNoList(key) == store[key] = Null \/ store[key] = JsonStringify(<<>>)

C24_ResetState ==
  /\ settings = Null
  /\ batches = <<>>
  /\ batchTypes = <<>>
  /\ store[SettingsKey] = Null \/ store[SettingsKey] = JsonStringify(Null)
  /\ C24_HoldsNoList(BatchesKey)
  /\ C24_HoldsNoList(BatchTypesKey)

C24_ResetReturnsToInitialState ==
  [][ /\ SettingsPage_handleReset(TRUE) => C24_ResetState'
      /\ SettingsPage_handleReset(FALSE) => UNCHANGED vars ]_vars

(***************************************************************************)
(* C26.  No update is lost: the calls of a mutator on one key issued       *)
(* without a render in between all take effect; after addBatch(a) then     *)
(* addBatch(b) in one event handler the batch list holds both a and b, on  *)
(* top of the batches it held.                                             *)
(***************************************************************************)
C26_Holds(list, newBatch) ==
  \E i \in 1..Len(list) : list[i] = BatchWithId(newBatch, clock)

C26_NoUpdateLost ==
  [][ \A a, b \in CallerBatches :
        Context_addBatchTwice(a, b) =>
          /\ C26_Holds(batches', a)
          /\ C26_Holds(batches', b)
          /\ Len(batches') = Len(batches) + 2 ]_vars

(***************************************************************************)
(* C27.  On the reports page the month whose batches make up the monthly   *)
(* totals and the list 'Batches this Month' is always the month the        *)
(* calendar displays, after any sequence of clicks on the previous and     *)
(* next buttons.                                                           *)
(***************************************************************************)
C27_MonthOf(date) == <<date[1], date[2]>>

C27_ReportFollowsCalendar ==
  settings # Null => C27_MonthOf(currentDate) = C27_MonthOf(calendarDate)

(***************************************************************************)
(* C28.  Whenever the edit modal is opened for a batch, the form fields    *)
(* are that batch's stored values and no field error is shown; in          *)
(* particular when the user changed fields in an earlier session with the  *)
(* same batch and cancelled it.                                            *)
(***************************************************************************)
C28_FormFields ==
  {"batchNumber", "machineNumber", "startDate", "endDate", "meterValue", "color"}

C28_ModalOpensWithStoredValues ==
  [][ \A row \in DisplayedRows :
        AppContent_handleEditBatch(row) =>
          LET stored == calculatedBatches[row]
          IN  /\ editFormData' # Null
              /\ \A k \in C28_FormFields : editFormData'[1][k] = stored[k]
              /\ editErrors' = [batchNumber |-> "", meterValue |-> ""] ]_vars

(***************************************************************************)
(* C29.  The month navigation of the calendar moves by exactly one         *)
(* calendar month for any current date: changeMonth(+1) shows the month    *)
(* right after the displayed one and changeMonth(-1) the month right       *)
(* before, whatever the day of the month (the 29th to the 31st included),  *)
(* so that +1 followed by -1 shows the original month again.               *)
(***************************************************************************)
C29_MonthIndex(date) == date[1] * 12 + date[2]

C29_MovesOneMonth ==
  [][ \A amount \in {-1, 1} :
        BatchCalendar_changeMonth(amount) =>
          /\ C29_MonthIndex(calendarDate') = C29_MonthIndex(calendarDate) + amount
          /\ C29_MonthIndex(SetMonth(calendarDate', calendarDate'[2] - 1 - amount))
               = C29_MonthIndex(calendarDate) ]_vars

(***************************************************************************)
(* C30.  The calculator evaluates chained operations from left to right    *)
(* with the intermediate result: entering a op1 b op2 c = displays         *)
(* (a op1 b) op2 c, because pressing an operator while one is pending      *)
(* first computes the intermediate result and makes it the left operand,   *)
(* and = displays the left operand combined with the number entered.       *)
(***************************************************************************)
C30_Pending ==
  /\ operator # Null
  /\ previousValue # Null
  /\ IsWholeResult(operator[1], previousValue[1], parseFloat(input))

C30_ChainsLeftToRight ==
  [][ /\ \A op \in OperatorKeys :
           C30_Pending /\ CalculatorModal_handleOperator(op) =>
             /\ previousValue' =
                  Some(ResultOf(operator[1], previousValue[1], parseFloat(input)))
             /\ operator' = Some(op)
      /\ C30_Pending /\ CalculatorModal_handleEquals =>
           parseFloat(input') =
             ResultOf(operator[1], previousValue[1], parseFloat(input)) ]_vars

====
